---- MODULE Spec2Model ----
(***************************************************************************)
(* Model of src/auditLogService.js: the audit-log service that is meant to *)
(* persist a record mutation together with its DashboardAuditLog rows.     *)
(*                                                                         *)
(* The model follows the JavaScript as written.  Three facts of the source *)
(* decide most of what the service does:                                   *)
(*   - verifyArguments (L83-92) is a static method that reads this.#user.  *)
(*     It is called as AuditLogService.verifyArguments(...), so `this` is  *)
(*     the class, which carries no #user field: the read throws TypeError. *)
(*   - the error classes are thrown without `new` (L90, L104, L215, L219): *)
(*     calling a class constructor as a function throws TypeError.         *)
(*   - module.exports.create/delete/update (L255-257) call                 *)
(*     AuditLogService.execute, but execute is an instance method: the     *)
(*     class has no such property, and the call throws TypeError.          *)
(***************************************************************************)
EXTENDS Integers, Sequences, FiniteSets, TLC

\* ------------------------------------------------------------ bounds
MaxInstances == 2      \* service objects obtained from init()
MaxLen == 2            \* members of a change-set
MaxCalls == 2          \* terminal calls (execute, create, delete, update) observed

\* ------------------------------------------------------------ values
Undefined == "undefined"
Null == "null"

\* const AUDIT_ACTIONS = { CREATE, DELETE, UPDATE }
AUDIT_ACTIONS == {"CREATE", "DELETE", "UPDATE"}

\* The action keywords a caller may pass: the three supported ones and an
\* unsupported one.
ActionInputs == AUDIT_ACTIONS \cup {"PATCH"}

\* The instances init() hands out, and the class object itself (the value of
\* `this` inside a static method called as AuditLogService.f(...)).
Instances == 1..MaxInstances
AuditLogServiceClass == 0

\* Static members of the class; execute, withUser and withTransaction live
\* on the prototype and are not properties of the class object.
StaticMembers ==
    {"supportedModel", "verifyArguments", "createModel", "destroyModel",
     "updateChangeSet"}

Users == {"u13"}
CallerTransactions == {"t1"}
OwnTransactions == {"own"}
Transactions == CallerTransactions \cup OwnTransactions

\* Error names as the caller sees them.
TypeError == "TypeError"
ReferenceError == "ReferenceError"
MisConfiguredError == "AuditLogServiceMisConfiguredError"
InvalidActionError == "AuditLogServiceInvalidActionError"
UnknownTableNameError == "AuditLogServiceUnknownTableNameError"
InvalidChangeSetError == "AuditLogServiceInvalidChangeSetError"
Ok == "ok"

\* ------------------------------------------------------------ records
\* Sequelize model instances the caller holds (README, General Usage), and
\* one of a table whose primary key is composite (README, Limitations).
Records == {"profile41", "fee1", "zoneFee"}

\* const DBModels = require('@drivemotors/drive-sdk/db'): the registered tables.
DBModels == {"DeliverySettingsProfile", "DeliveryFeeByDistance"}

ModelNameOf(r) ==
    IF r = "profile41" THEN "DeliverySettingsProfile"
    ELSE IF r = "fee1" THEN "DeliveryFeeByDistance"
    ELSE "DeliveryFeeByZone"

\* The fields the caller edits; the composite-key record is left as loaded.
FieldsOf(r) ==
    IF r = "profile41" THEN {"deliveryRangeMiles", "offerDeliveryTradeIn"}
    ELSE IF r = "fee1" THEN {"feeCents"}
    ELSE {}

\* model.primaryKeyAttributes and the values model[primaryKeyAttribute].
primaryKeyAttributes(r) ==
    IF r = "zoneFee" THEN <<"profileId", "zone">> ELSE <<"id">>

primaryKeyValue(r, attribute) ==
    IF r = "profile41" THEN 41
    ELSE IF r = "fee1" THEN 1
    ELSE IF attribute = "profileId" THEN 41 ELSE 7

\* getPrimaryKeyForModel(model): the key values in attribute order, which
\* join() renders separated by commas; a composite key is not refused.
getPrimaryKeyForModel(r) ==
    [i \in 1..Len(primaryKeyAttributes(r)) |->
        primaryKeyValue(r, primaryKeyAttributes(r)[i])]

\* The record types that implement labelValue() (README, Labels).
HasLabelValue(r) == r = "profile41"

\* The rows as loaded, and the values the caller may assign (README L15-19).
LoadedRow(r) ==
    IF r = "profile41"
    THEN [f \in FieldsOf(r) |-> IF f = "deliveryRangeMiles" THEN 50 ELSE 0]
    ELSE [f \in FieldsOf(r) |-> 10000]

EditedValue(r, f) ==
    IF r = "profile41"
    THEN (IF f = "deliveryRangeMiles" THEN 100 ELSE 1)
    ELSE 11000

\* Plain attribute objects, as module.exports.create builds them:
\* {...data, tableName} with a registered or an unregistered table name.
PlainObjects == {"feeData", "ghostData"}

Members == Records \cup PlainObjects

\* const { tableName } = data: the member's own tableName property.  A
\* Sequelize instance has none (tableName is a static of its class).
TableNameProp(m) ==
    IF m = "feeData" THEN "DeliveryFeeByDistance"
    ELSE IF m = "ghostData" THEN "Ghost"
    ELSE Undefined

RECURSIVE SeqsUpTo(_, _)
SeqsUpTo(S, n) ==
    IF n = 0 THEN {<<>>}
    ELSE LET shorter == SeqsUpTo(S, n - 1)
         IN  shorter \cup {Append(q, x) : q \in {p \in shorter : Len(p) = n - 1}, x \in S}

ChangeSets == SeqsUpTo(Members, MaxLen)

VARIABLES
    made,         \* instances handed out by init()
    user,         \* #user of each instance
    transaction,  \* #transaction of each instance
    current,      \* in-memory values of the caller's model instances
    store,        \* persisted rows of the record store, by record
    audit,        \* rows of DashboardAuditLog, in insertion order
    txState,      \* state of each transaction of the storage collaborator
    io,           \* storage calls the service has issued, in order
    last,         \* the most recent terminal call and its outcome
    nCalls        \* terminal calls completed

vars == <<made, user, transaction, current, store, audit, txState, io, last, nCalls>>

\* ------------------------------------------------------------ helpers of the service

\* Variant of StaticThis: verifyArguments run as an instance method.
InstanceThis(s) == s

\* The receiver of a static call AuditLogService.f(...) made while instance s
\* executes: the class object, never s.
StaticThis(s) == AuditLogServiceClass

\* #user and #transaction are installed by the constructor on instances only;
\* reading them on any other object throws TypeError.
HasPrivateFields(obj) == obj \in Instances

\* static supportedModel(model): model instanceof Model
supportedModel(model) == model \in Records

\* static verifyArguments(changeSet), with thisArg the value of `this`.
\* Returns Ok or the name of the error thrown.
verifyArguments(thisArg, changeSet) ==
    IF ~HasPrivateFields(thisArg) THEN TypeError            \* L85 this.#user
    ELSE IF user[thisArg] = Undefined THEN MisConfiguredError   \* L86
    ELSE IF ~(\A i \in 1..Len(changeSet) : supportedModel(changeSet[i]))
         THEN TypeError                                     \* L90 thrown without new
    ELSE Ok

\* What a builder of planned writes hands back when it does not throw:
\* a reducer function (promises) => [...], not a list of promises.
ReducerFunction == "function"

\* static createModel(data, changedBy), up to the return of the reducer.
createModel(data, changedBy) ==
    IF data = Undefined THEN TypeError                      \* L101 destructuring undefined
    ELSE IF TableNameProp(data) \notin DBModels THEN TypeError  \* L104 thrown without new
    ELSE ReferenceError                                     \* L107 dataWithTableName

\* static destroyModel(model, changedBy), up to the return of the reducer.
destroyModel(s, model, changedBy) ==
    LET v == verifyArguments(StaticThis(s), <<model>>)      \* L137
    IN  IF v # Ok THEN v ELSE ReducerFunction

\* static updateChangeSet(changeSet, changedBy): returns its reducer at once.
updateChangeSet(changeSet, changedBy) == ReducerFunction

\* Promise.all(executables): a function is not iterable, the promise rejects.
PromiseAll(executables) ==
    IF executables = ReducerFunction THEN TypeError ELSE Ok

\* changeSet[0]
First(changeSet) == IF Len(changeSet) = 0 THEN Undefined ELSE changeSet[1]

\* A storage call issued by the service.
Call(op, tx) == [op |-> op, tx |-> tx, record |-> Undefined]

\* How a terminal call ends: the value or error its caller gets, the storage
\* calls it issued, and the number of uuid() calls it made.  uuid() is called
\* only inside the reducers (L115, L146, L196), which execute never invokes.
Outcome(result, calls) == [result |-> result, calls |-> calls, uuids |-> 0]

\* async execute(action, changeSet, manageTransaction = true) on instance s.
\* Returns the result the caller's promise settles with and the storage calls
\* issued on the way, in order.
execute(s, action, changeSet, manageTransaction) ==
    LET v == verifyArguments(StaticThis(s), changeSet)                  \* L212
        actionIsPresentAndValid == action \in AUDIT_ACTIONS             \* L213
        supplied == transaction[s] # Undefined
        tx == IF supplied THEN transaction[s] ELSE "own"                \* L222
        opened == IF supplied THEN <<>> ELSE <<Call("transaction", tx)>>
        executables ==                                                  \* L223-233
            IF action = "UPDATE" THEN updateChangeSet(changeSet, user[s])
            ELSE IF action = "CREATE" THEN createModel(First(changeSet), user[s])
            ELSE destroyModel(s, First(changeSet), user[s])
        manageTransactionInternally ==                                  \* L235
            IF supplied THEN manageTransaction ELSE TRUE
        settled == PromiseAll(executables)                              \* L237
    IN  IF v # Ok THEN Outcome(v, <<>>)
        ELSE IF ~actionIsPresentAndValid THEN Outcome(TypeError, <<>>)  \* L215 thrown without new
        ELSE IF action \in {"CREATE", "DELETE"} /\ Len(changeSet) > 1
             THEN Outcome(TypeError, <<>>)                              \* L219 thrown without new
        ELSE IF executables # ReducerFunction
             THEN Outcome(executables, opened)                          \* thrown outside the try
        ELSE IF settled = Ok
             THEN Outcome(Ok, IF manageTransactionInternally
                              THEN Append(opened, Call("commit", tx))   \* L239
                              ELSE opened)
        ELSE Outcome(settled, IF manageTransactionInternally
                              THEN Append(opened, Call("rollback", tx)) \* L245
                              ELSE opened)                              \* L247 rethrown

\* module.exports.create / delete / update: AuditLogService.execute(...),
\* a property lookup on the class object followed by a call.
classExecute(action, changeSet, manageTransaction) ==
    IF "execute" \notin StaticMembers
    THEN Outcome(TypeError, <<>>)       \* AuditLogService.execute is not a function
    ELSE Outcome(verifyArguments(AuditLogServiceClass, changeSet), <<>>)

\* ------------------------------------------------------------ storage collaborator

\* The effect of one storage call on the transactions.
TxAfter(tx, call) ==
    IF call.op = "transaction" THEN [tx EXCEPT ![call.tx] = "open"]
    ELSE IF call.op = "commit" THEN [tx EXCEPT ![call.tx] = "committed"]
    ELSE IF call.op = "rollback" THEN [tx EXCEPT ![call.tx] = "rolledBack"]
    ELSE tx

\* The effect of one storage call on the persisted rows: model.save() issued
\* without a transaction option writes the in-memory values at once.
StoreAfter(st, call) ==
    IF call.op = "save" /\ call.record \in DOMAIN st
    THEN [st EXCEPT ![call.record] = current[call.record]]
    ELSE st

RECURSIVE TxAfterAll(_, _)
TxAfterAll(tx, calls) ==
    IF calls = <<>> THEN tx ELSE TxAfterAll(TxAfter(tx, Head(calls)), Tail(calls))

RECURSIVE StoreAfterAll(_, _)
StoreAfterAll(st, calls) ==
    IF calls = <<>> THEN st ELSE StoreAfterAll(StoreAfter(st, Head(calls)), Tail(calls))

\* ------------------------------------------------------------ state machine

\* No terminal call is awaiting its caller.
NoCall ==
    [api |-> "none", svc |-> AuditLogServiceClass, action |-> Undefined,
     changeSet |-> <<>>, manage |-> TRUE, result |-> Undefined, calls |-> <<>>,
     uuids |-> 0,
     storeBefore |-> [r \in Records |-> LoadedRow(r)],
     auditBefore |-> 0,
     txBefore |-> [t \in Transactions |-> "unopened"]]

Idle == last.api = "none"

\* A terminal call may start when no other is awaited and the bound on the
\* calls observed allows it.
MayCall == Idle /\ nCalls < MaxCalls

Init ==
    /\ made = {}
    /\ user = [i \in Instances |-> Undefined]
    /\ transaction = [i \in Instances |-> Undefined]
    /\ current = [r \in Records |-> LoadedRow(r)]
    /\ store = [r \in Records |-> LoadedRow(r)]
    /\ audit = <<>>
    /\ txState = [t \in Transactions |->
                    IF t \in CallerTransactions THEN "open" ELSE "unopened"]
    /\ io = <<>>
    /\ last = NoCall
    /\ nCalls = 0

\* init: () => new AuditLogService()
InitService(i) ==
    /\ Idle
    /\ i \notin made
    /\ i = Cardinality(made) + 1
    /\ made' = made \cup {i}
    /\ UNCHANGED <<user, transaction, current, store, audit, txState, io, last, nCalls>>

\* withUser(user)
WithUser(i, u) ==
    /\ Idle
    /\ i \in made
    /\ user' = [user EXCEPT ![i] = u]
    /\ UNCHANGED <<made, transaction, current, store, audit, txState, io, last, nCalls>>

\* withTransaction(transaction)
WithTransaction(i, t) ==
    /\ Idle
    /\ i \in made
    /\ transaction' = [transaction EXCEPT ![i] = t]
    /\ UNCHANGED <<made, user, current, store, audit, txState, io, last, nCalls>>

\* The caller assigns a field of a loaded model instance (README L16-18).
CallerEdit(r, f) ==
    /\ Idle
    /\ current[r][f] # EditedValue(r, f)
    /\ current' = [current EXCEPT ![r][f] = EditedValue(r, f)]
    /\ UNCHANGED <<made, user, transaction, store, audit, txState, io, last, nCalls>>

\* A terminal call settles: its storage calls take effect, and its outcome is
\* held until the caller has received it.
Settle(api, i, action, changeSet, manage, out) ==
    /\ MayCall
    /\ nCalls' = nCalls + 1
    /\ io' = io \o out.calls
    /\ txState' = TxAfterAll(txState, out.calls)
    /\ store' = StoreAfterAll(store, out.calls)
    /\ last' = [api |-> api, svc |-> i, action |-> action, changeSet |-> changeSet,
                manage |-> manage, result |-> out.result, calls |-> out.calls,
                uuids |-> out.uuids,
                storeBefore |-> store, auditBefore |-> Len(audit),
                txBefore |-> txState]
    /\ UNCHANGED <<made, user, transaction, current, audit>>

\* instance.execute(action, changeSet, manageTransaction)
Execute(i, action, changeSet, manage) ==
    /\ i \in made
    /\ Settle("execute", i, action, changeSet, manage,
              execute(i, action, changeSet, manage))

\* module.exports.create(tableName, data, manageTransaction)
ExportCreate(data, manage) ==
    Settle("create", AuditLogServiceClass, "CREATE", <<data>>, manage,
           classExecute("CREATE", <<data>>, manage))

\* module.exports.delete(model, manageTransaction): passes AUDIT_ACTIONS.CREATE
ExportDelete(model, manage) ==
    Settle("delete", AuditLogServiceClass, "CREATE", <<model>>, manage,
           classExecute("CREATE", <<model>>, manage))

\* module.exports.update(changeSet, manageTransaction)
ExportUpdate(changeSet, manage) ==
    Settle("update", AuditLogServiceClass, "UPDATE", changeSet, manage,
           classExecute("UPDATE", changeSet, manage))

\* The caller receives the outcome of its awaited call and goes on
\* (README L20-28: await auditLogService.init()...).
Return ==
    /\ ~Idle
    /\ last' = NoCall
    /\ UNCHANGED <<made, user, transaction, current, store, audit, txState, io, nCalls>>

Next ==
    \/ \E i \in Instances : InitService(i)
    \/ \E i \in Instances, u \in Users \cup {Undefined} : WithUser(i, u)
    \/ \E i \in Instances, t \in CallerTransactions \cup {Undefined} : WithTransaction(i, t)
    \/ \E r \in Records : \E f \in FieldsOf(r) : CallerEdit(r, f)
    \/ MayCall /\ \E i \in Instances, a \in ActionInputs, cs \in ChangeSets, m \in BOOLEAN :
                     Execute(i, a, cs, m)
    \/ MayCall /\ \E d \in PlainObjects, m \in BOOLEAN : ExportCreate(d, m)
    \/ MayCall /\ \E x \in Records, m \in BOOLEAN : ExportDelete(x, m)
    \/ MayCall /\ \E cs \in ChangeSets, m \in BOOLEAN : ExportUpdate(cs, m)
    \/ Return

Spec == Init /\ [][Next]_vars

\* ------------------------------------------------------------ vocabulary of the claims

\* A terminal call has settled and its outcome is before the caller.
Completed == ~Idle
Failed == Completed /\ last.result # Ok

ViaExecute == Completed /\ last.api = "execute"

\* The actor was bound with withUser before the call.
ActorPresent == ViaExecute /\ user[last.svc] # Undefined

AllAuditable == \A i \in 1..Len(last.changeSet) : last.changeSet[i] \in Records

\* Fields of r whose in-memory value differs from the row as persisted
\* before the call.
DirtyFields(r) == {f \in FieldsOf(r) : current[r][f] # last.storeBefore[r][f]}

RECURSIVE DirtyCount(_)
DirtyCount(cs) ==
    IF cs = <<>> THEN 0
    ELSE Cardinality(DirtyFields(Head(cs))) + DirtyCount(Tail(cs))

\* The calls of the outcome that write a record or an audit row.
WriteOps == {"create", "save", "destroy", "audit"}
WritesOf(calls) == {i \in 1..Len(calls) : calls[i].op \in WriteOps}

\* An UPDATE the specification accepts: actor bound, one or more members,
\* every member a model instance.
ValidUpdate ==
    /\ ActorPresent
    /\ last.action = "UPDATE"
    /\ Len(last.changeSet) >= 1
    /\ AllAuditable

\* An input that breaks one of the validator's rules 1-5.
InvalidInput ==
    /\ ViaExecute
    /\ \/ user[last.svc] = Undefined
       \/ last.action \notin AUDIT_ACTIONS
       \/ ~AllAuditable
       \/ last.action \in {"CREATE", "DELETE"} /\ Len(last.changeSet) # 1
       \/ last.action = "CREATE" /\ Len(last.changeSet) >= 1
             /\ TableNameProp(last.changeSet[1]) \notin DBModels

\* ------------------------------------------------------------ claims

\* C4: cardinality.  CREATE or DELETE with more than one member (actor
\* bound, every member auditable) fails with InvalidChangeSetError and
\* issues no storage write.
C4_Cardinality ==
    (/\ ActorPresent
     /\ last.action \in {"CREATE", "DELETE"}
     /\ AllAuditable
     /\ Len(last.changeSet) > 1)
    => /\ last.result = InvalidChangeSetError
       /\ WritesOf(last.calls) = {}

\* C5: validation precedes storage I/O.  Whenever execute has rejected an
\* input that breaks a validation rule, it has issued no storage call, not
\* even the opening of a transaction, and the store is untouched.
C5_ValidationBeforeIO ==
    InvalidInput => /\ last.result # Ok
                    /\ last.calls = <<>>
                    /\ txState = last.txBefore
                    /\ store = last.storeBefore

\* C5 witness: execute has rejected a CREATE naming an unregistered table,
\* with the actor bound and no transaction supplied.
C5_Witness ==
    /\ InvalidInput
    /\ ActorPresent
    /\ last.action = "CREATE"
    /\ Len(last.changeSet) = 1
    /\ TableNameProp(last.changeSet[1]) \notin DBModels
    /\ transaction[last.svc] = Undefined
    /\ last.result # Ok

\* C6: UPDATE row count.  After a valid UPDATE has settled, the number of
\* audit rows it inserted equals the sum over its records of the number of
\* dirty fields.
C6_UpdateRowCount ==
    ValidUpdate => Len(audit) - last.auditBefore = DirtyCount(last.changeSet)

\* C7: correlation identifier.  A valid UPDATE with at least one dirty field
\* mints exactly one identifier, and every audit row it inserted carries
\* that same identifier.
C7_CorrelationId ==
    (ValidUpdate /\ DirtyCount(last.changeSet) > 0)
    => /\ last.uuids = 1
       /\ Len(audit) > last.auditBefore
       /\ \A i, j \in (last.auditBefore + 1)..Len(audit) :
             audit[i].changesetUuidBin = audit[j].changesetUuidBin

\* C8: CREATE entry shape.  create(tableName, attributes) on a registered
\* table succeeds, inserts exactly one record and exactly one audit row, and
\* that row has action CREATE and oldValue null.
C8_CreateShape ==
    (/\ Completed
     /\ last.api = "create"
     /\ TableNameProp(last.changeSet[1]) \in DBModels)
    => /\ last.result = Ok
       /\ Cardinality({i \in 1..Len(last.calls) : last.calls[i].op = "create"}) = 1
       /\ Len(audit) = last.auditBefore + 1
       /\ audit[Len(audit)].action = "CREATE"
       /\ audit[Len(audit)].oldValue = Null

\* C9: DELETE entry shape.  delete(record) of a persisted record succeeds,
\* destroys the record and inserts exactly one audit row, with action DELETE
\* and newValue null.
C9_DeleteShape ==
    (/\ Completed
     /\ last.api = "delete"
     /\ last.changeSet[1] \in DOMAIN last.storeBefore)
    => /\ last.result = Ok
       /\ last.changeSet[1] \notin DOMAIN store
       /\ Len(audit) = last.auditBefore + 1
       /\ audit[Len(audit)].action = "DELETE"
       /\ audit[Len(audit)].newValue = Null

\* C10: transaction ownership.  With no transaction supplied, a valid call
\* has opened a transaction of its own and committed it or rolled it back;
\* with a supplied transaction and manageTransaction false, the call issued
\* neither commit nor rollback.
C10_TransactionOwnership ==
    /\ (ValidUpdate /\ transaction[last.svc] = Undefined)
       => /\ \E i \in 1..Len(last.calls) : last.calls[i].op = "transaction"
          /\ txState["own"] \in {"committed", "rolledBack"}
    /\ (ViaExecute /\ transaction[last.svc] # Undefined /\ ~last.manage)
       => \A i \in 1..Len(last.calls) : last.calls[i].op \notin {"commit", "rollback"}

\* ------------------------------------------------------------ vocabulary of the later claims

\* The transaction of the call is managed by the executor (L235).
InternallyManaged ==
    ViaExecute /\ (transaction[last.svc] = Undefined \/ last.manage)

OpsOf(calls) == {calls[i].op : i \in 1..Len(calls)}

\* The error of the lowest-numbered validation rule the input breaks
\* (rules 1-5 of the validator, in the order the specification gives).
ExpectedRejection ==
    IF user[last.svc] = Undefined THEN MisConfiguredError
    ELSE IF last.action \notin AUDIT_ACTIONS THEN InvalidActionError
    ELSE IF ~AllAuditable THEN InvalidChangeSetError
    ELSE IF last.action \in {"CREATE", "DELETE"} /\ Len(last.changeSet) # 1
         THEN InvalidChangeSetError
    ELSE UnknownTableNameError

\* The error the specification names for a composite primary key.
UnsupportedKeyError == "UnsupportedKeyError"

HasCompositeKey(r) == r \in Records /\ Len(primaryKeyAttributes(r)) > 1

\* No member of the change-set has a composite primary key.
SingleKeys ==
    \A i \in 1..Len(last.changeSet) : ~HasCompositeKey(last.changeSet[i])

\* The audit rows the call inserted.
NewRows == (last.auditBefore + 1)..Len(audit)

\* ------------------------------------------------------------ later claims

\* C11: failure propagation.  A call of execute that fails on an input
\* the validation rules accept, under an internally managed transaction,
\* has rolled the transaction back.
C11_FailurePropagation ==
    (Failed /\ InternallyManaged /\ ~InvalidInput /\ SingleKeys)
    => "rollback" \in OpsOf(last.calls)

\* C12: validation order.  An input that breaks one or more validation
\* rules fails with the error of the lowest-numbered rule it breaks.
C12_ValidationOrder ==
    InvalidInput => last.result = ExpectedRejection

\* C13: composite keys rejected.  An otherwise valid UPDATE with a member
\* whose primary key is composite fails with UnsupportedKeyError before any
\* storage write, and no audit row encodes more than one key value.
C13_CompositeKeyRejected ==
    /\ (ValidUpdate /\ \E i \in 1..Len(last.changeSet) : HasCompositeKey(last.changeSet[i]))
       => /\ last.result = UnsupportedKeyError
          /\ WritesOf(last.calls) = {}
    /\ \A k \in 1..Len(audit) : Len(audit[k].primaryKey) <= 1

\* C14: labels are optional.  A valid UPDATE of edited single-key records whose type
\* has no label capability raises no error and inserts rows whose oldLabel
\* and newLabel are null.
C14_LabelsOptional ==
    (/\ ValidUpdate
     /\ SingleKeys
     /\ DirtyCount(last.changeSet) > 0
     /\ \A i \in 1..Len(last.changeSet) : ~HasLabelValue(last.changeSet[i]))
    => /\ last.result = Ok
       /\ NewRows # {}
       /\ \A k \in NewRows : audit[k].oldLabel = Null /\ audit[k].newLabel = Null

\* C15: executor state machine.  A valid call under an internally managed
\* transaction, with single-attribute keys, ends Committed or RolledBack, never both, with success
\* exactly when Committed, and issues no call after the commit or rollback.
C15_StateMachine ==
    (ValidUpdate /\ SingleKeys /\ InternallyManaged)
    => /\ ("commit" \in OpsOf(last.calls)) # ("rollback" \in OpsOf(last.calls))
       /\ (last.result = Ok) = ("commit" \in OpsOf(last.calls))
       /\ Len(last.calls) > 0
       /\ last.calls[Len(last.calls)].op \in {"commit", "rollback"}

\* C17: per-field UPDATE entries.  After a valid single-key UPDATE, every dirty field
\* f of every record has exactly one audit row, with fieldName f, the old
\* value the persisted value of f and the new value the in-memory value of f.
C17_PerFieldEntries ==
    (ValidUpdate /\ SingleKeys)
    => \A i \in 1..Len(last.changeSet) :
          \A f \in DirtyFields(last.changeSet[i]) :
             /\ Cardinality({k \in NewRows :
                    /\ audit[k].fieldName = f
                    /\ audit[k].primaryKey = getPrimaryKeyForModel(last.changeSet[i])}) = 1
             /\ \A k \in NewRows :
                    (/\ audit[k].fieldName = f
                     /\ audit[k].primaryKey = getPrimaryKeyForModel(last.changeSet[i]))
                    => /\ audit[k].oldValue = last.storeBefore[last.changeSet[i]][f]
                       /\ audit[k].newValue = current[last.changeSet[i]][f]

====
